---------------------------- MODULE Spec2Model ----------------------------
(***************************************************************************)
(* A model of libnss-aad: the Azure AD directory client (src/src/azure.rs), *)
(* its error conversions (src/src/error.rs) and the NSS entry points with  *)
(* their buffer packing (src/src/lib.rs).                                  *)
(*                                                                         *)
(* Strings are sequences: security identifiers are sequences of one-       *)
(* character strings (they are split and parsed), names are sequences of   *)
(* bytes (they are copied into C buffers, where a zero byte matters).      *)
(***************************************************************************)
EXTENDS Integers, Sequences, FiniteSets, TLC

VARIABLES pc, url, user_groups, retries, result, nreq, served, last, inp, out

vars == <<pc, url, user_groups, retries, result, nreq, served, last, inp, out>>

(***************************************************************************)
(* Bounds of the model.                                                    *)
(***************************************************************************)
MaxPages == 3

MaxPageLen == 2

MaxRidLen == 4

MaxListLen == 2

MaxNameLen == 2

MaxBuf == 28

MaxGrBuf == 12

MaxArray == 3

MaxThreads == 2

(***************************************************************************)
(* Program constants.                                                      *)
(***************************************************************************)
RetryBudget == 5

MinUsableId == 1000

(***************************************************************************)
(* Generic helpers.                                                        *)
(***************************************************************************)
Min(a, b) == IF a < b THEN a ELSE b

RECURSIVE Concat(_)
Concat(ss) == IF ss = <<>> THEN <<>> ELSE Head(ss) \o Concat(Tail(ss))

Ok(v) == [ok |-> TRUE, val |-> v]

Err(e) == [ok |-> FALSE, err |-> e]

(* JSON values as far as the client looks at them: a string, or anything   *)
(* else (null, a missing key, a number...), for which as_str() is None.    *)
JStr(s) == [t |-> "str", s |-> s]

JNull == [t |-> "null"]

JOther == [t |-> "other"]

JArray(items) == [t |-> "array", items |-> items]

(***************************************************************************)
(* error.rs: the error values.                                             *)
(***************************************************************************)
BadHTTPResponse(status, marker) ==
    [e |-> "BadHTTPResponse", status |-> status, marker |-> marker]

NoAccessToken == [e |-> "NoAccessToken"]

BadJSONResponse == [e |-> "BadJSONResponse"]

HTTPError == [e |-> "HTTPError"]

UnusableImmutableID == [e |-> "UnusableImmutableID"]

TooManyResults == [e |-> "TooManyResults"]

NotFound == [e |-> "NotFound"]

(***************************************************************************)
(* str::parse::<u32>() as azure.rs uses it on the last SID component:      *)
(* an optional leading "+", then one or more decimal digits, accumulated   *)
(* with checked multiplication and addition, so that a value above         *)
(* u32::MAX is an error.  -1 stands for Err(ParseIntError).  TLC's        *)
(* integers are 32-bit signed, so the overflow test compares numerals      *)
(* instead of computing the value, and the model's inputs keep RIDs below  *)
(* 2^31 or above u32::MAX.                                                 *)
(***************************************************************************)
Digits == <<"0", "1", "2", "3", "4", "5", "6", "7", "8", "9">>

U32MaxDigits == <<"4", "2", "9", "4", "9", "6", "7", "2", "9", "5">>

DigitVal(c) ==
    IF \E d \in 1..10 : Digits[d] = c
    THEN (CHOOSE d \in 1..10 : Digits[d] = c) - 1
    ELSE -1

RECURSIVE StripZeros(_)
StripZeros(s) ==
    IF Len(s) > 1 /\ Head(s) = "0" THEN StripZeros(Tail(s)) ELSE s

RECURSIVE NumeralGreater(_, _)
NumeralGreater(a, b) ==
    IF Len(a) # Len(b) THEN Len(a) > Len(b)
    ELSE IF a = <<>> THEN FALSE
    ELSE IF Head(a) # Head(b) THEN DigitVal(Head(a)) > DigitVal(Head(b))
    ELSE NumeralGreater(Tail(a), Tail(b))

RECURSIVE DigitsValue(_, _)
DigitsValue(s, acc) ==
    IF s = <<>> THEN acc ELSE DigitsValue(Tail(s), acc * 10 + DigitVal(Head(s)))

ParseDigits(s) ==
    IF \E i \in 1..Len(s) : DigitVal(s[i]) < 0 THEN -1
    ELSE IF NumeralGreater(StripZeros(s), U32MaxDigits) THEN -1
    ELSE DigitsValue(s, 0)

ParseU32(s) ==
    LET digits == IF s # <<>> /\ Head(s) = "+" THEN Tail(s) ELSE s
    IN  IF digits = <<>> THEN -1 ELSE ParseDigits(digits)

(* sid.split('-').collect::<Vec<&str>>().pop().unwrap(): the text after    *)
(* the last hyphen, the whole text when there is none.                     *)
RECURSIVE LastSidPart(_)
LastSidPart(s) ==
    IF \E i \in 1..Len(s) : s[i] = "-"
    THEN LastSidPart(SubSeq(s, (CHOOSE i \in 1..Len(s) : s[i] = "-") + 1, Len(s)))
    ELSE s

(***************************************************************************)
(* azure.rs: extracting records from JSON objects.                         *)
(***************************************************************************)
extract_user_info_min100(userinfo) ==
    IF userinfo.userPrincipalName.t # "str" THEN Err(BadJSONResponse)
    ELSE IF userinfo.displayName.t # "str" THEN Err(BadJSONResponse)
    ELSE IF userinfo.sid.t # "str" THEN Err(BadJSONResponse)
    ELSE LET user_id == ParseU32(LastSidPart(userinfo.sid.s))
         IN  IF user_id < 0 THEN Err(UnusableImmutableID)
             ELSE IF user_id < 100 THEN Err(UnusableImmutableID)
             ELSE Ok([username |-> userinfo.userPrincipalName.s,
                      fullname |-> userinfo.displayName.s,
                      userid   |-> user_id])

extract_user_info(userinfo) ==
    IF userinfo.userPrincipalName.t # "str" THEN Err(BadJSONResponse)
    ELSE IF userinfo.displayName.t # "str" THEN Err(BadJSONResponse)
    ELSE IF userinfo.sid.t # "str" THEN Err(BadJSONResponse)
    ELSE LET user_id == ParseU32(LastSidPart(userinfo.sid.s))
         IN  IF user_id < 0 THEN Err(UnusableImmutableID)
             ELSE IF user_id < MinUsableId THEN Err(UnusableImmutableID)
             ELSE Ok([username |-> userinfo.userPrincipalName.s,
                      fullname |-> userinfo.displayName.s,
                      userid   |-> user_id])

extract_group_info(group) ==
    IF group.displayName.t # "str" THEN Err(BadJSONResponse)
    ELSE IF group.objectId.t # "str" THEN Err(BadJSONResponse)
    ELSE IF group.sid.t # "str" THEN Err(BadJSONResponse)
    ELSE LET group_id == ParseU32(LastSidPart(group.sid.s))
         IN  IF group_id < 0 THEN Err(UnusableImmutableID)
             ELSE IF group_id < MinUsableId THEN Err(UnusableImmutableID)
             ELSE Ok([groupname |-> group.displayName.s,
                      object_id |-> group.objectId.s,
                      group_id  |-> group_id])

(* filter_map(|v| extract(v).ok()): the records that extract, in order.    *)
RECURSIVE filter_map_users(_)
filter_map_users(items) ==
    IF items = <<>> THEN <<>>
    ELSE LET r == extract_user_info(Head(items))
         IN  (IF r.ok THEN <<r.val>> ELSE <<>>) \o filter_map_users(Tail(items))

RECURSIVE filter_map_groups(_)
filter_map_groups(items) ==
    IF items = <<>> THEN <<>>
    ELSE LET r == extract_group_info(Head(items))
         IN  (IF r.ok THEN <<r.val>> ELSE <<>>) \o filter_map_groups(Tail(items))

(* A response body: wf says whether it is well-formed JSON, value and link *)
(* are its "value" and "odata.nextLink" members.                           *)
extract_group_members(json) ==
    IF ~json.wf THEN Err(BadJSONResponse)
    ELSE IF json.value.t # "array" THEN Err(BadJSONResponse)
    ELSE Ok(filter_map_users(json.value.items))

extract_user_groups(json) ==
    IF ~json.wf THEN Err(BadJSONResponse)
    ELSE IF json.value.t = "null" THEN Err(NotFound)
    ELSE IF json.value.t # "array" THEN Err(BadJSONResponse)
    ELSE Ok(filter_map_groups(json.value.items))

has_another_page(json) ==
    IF ~json.wf THEN Err(BadJSONResponse)
    ELSE IF json.link.t = "null" THEN Ok([some |-> FALSE])
    ELSE IF json.link.t # "str" THEN Err(BadJSONResponse)
    ELSE Ok([some |-> TRUE, link |-> json.link.s])

(***************************************************************************)
(* azure.rs: the HTTP layer. tok is what the token endpoint answers, con   *)
(* what the graph endpoint answers.                                        *)
(***************************************************************************)
HttpOk == 200

HttpNotFound == 404

(* The statuses the model lets a server answer with. *)
HttpStatuses == {HttpOk, HttpNotFound, 500}

(* post_query / get_content: a transport error, a non-200 status, or the   *)
(* body text.                                                              *)
http_body(resp) ==
    IF resp.kind = "transport" THEN Err(HTTPError)
    ELSE IF resp.status # HttpOk THEN Err(BadHTTPResponse(resp.status, resp.marker))
    ELSE Ok(resp.body)

extract_token(json) ==
    IF ~json.wf THEN Err(BadJSONResponse)
    ELSE IF json.access_token.t # "str" THEN Err(NoAccessToken)
    ELSE Ok(json.access_token.s)

get_graph_info(tok, con) ==
    LET token_json == http_body(tok)
    IN  IF ~token_json.ok THEN token_json
        ELSE LET token == extract_token(token_json.val)
             IN  IF ~token.ok THEN token ELSE http_body(con)

(***************************************************************************)
(* The directory as get_user_groups sees it.  A URL is the number of the   *)
(* page it addresses: 1 is the memberOf URL, and the continuation link of  *)
(* page k makes the URL of page k + 1.  The i-th object of page k is       *)
(* distinct from every other object, and either extracts to a group or     *)
(* does not (a RID below 1000, or no displayName).                         *)
(***************************************************************************)
RECURSIVE ToDecimal(_)
ToDecimal(n) ==
    IF n < 10 THEN <<Digits[n + 1]>>
    ELSE ToDecimal(n \div 10) \o <<Digits[(n % 10) + 1]>>

DomainSid == <<"S", "-", "1", "-", "5", "-", "2", "1">>

GroupAt(page, i) ==
    [groupname |-> <<103, page, i>>,
     object_id |-> <<111, page, i>>,
     group_id  |-> MinUsableId + 10 * page + i]

RawGroupAt(page, i, valid) ==
    [displayName |-> IF ~valid /\ (page + i) % 2 = 1
                     THEN JNull ELSE JStr(<<103, page, i>>),
     objectId    |-> JStr(<<111, page, i>>),
     sid         |-> JStr(DomainSid \o <<"-">> \o
                          ToDecimal(IF ~valid /\ (page + i) % 2 = 0
                                    THEN 10 * page + i
                                    ELSE MinUsableId + 10 * page + i))]

(* Which objects of a page pass validation: any length up to MaxPageLen,   *)
(* and at most one object of a page failing.                               *)
Validities ==
    {v \in UNION {[1..k -> BOOLEAN] : k \in 0..MaxPageLen} :
        Cardinality({i \in DOMAIN v : ~v[i]}) <= 1}

PageItems(page, v) == [i \in DOMAIN v |-> RawGroupAt(page, i, v[i])]

FirstUrl == [page |-> 1]

LinkUrl(link) == [page |-> link]

Links(u) == {JNull} \cup (IF u.page < MaxPages THEN {JStr(u.page + 1)} ELSE {})

TokenBodies ==
    {[wf |-> FALSE, access_token |-> JNull],
     [wf |-> TRUE, access_token |-> JNull],
     [wf |-> TRUE, access_token |-> JStr(<<116>>)]}

Transport == [kind |-> "transport"]

HttpResp(status, marker, body) ==
    [kind |-> "http", status |-> status, marker |-> marker, body |-> body]

NoBody == [wf |-> FALSE]

TokenResponses ==
    {Transport}
    \cup {HttpResp(s, m, NoBody) : s \in HttpStatuses \ {HttpOk}, m \in BOOLEAN}
    \cup {HttpResp(HttpOk, FALSE, b) : b \in TokenBodies}

GoodToken == HttpResp(HttpOk, FALSE, [wf |-> TRUE, access_token |-> JStr(<<116>>)])

FailResponses ==
    {Transport}
    \cup {HttpResp(s, m, NoBody) : s \in HttpStatuses \ {HttpOk}, m \in BOOLEAN}

BadPages ==
    {[wf |-> FALSE, value |-> JNull, link |-> JNull, v |-> <<>>],
     [wf |-> TRUE, value |-> JNull, link |-> JNull, v |-> <<>>],
     [wf |-> TRUE, value |-> JOther, link |-> JNull, v |-> <<>>],
     [wf |-> TRUE, value |-> JArray(<<>>), link |-> JOther, v |-> <<>>]}

(* v, the validity of each object, is carried for the record of what was   *)
(* served; the client never reads it.                                      *)
GoodPages(u) ==
    {[wf |-> TRUE, value |-> JArray(PageItems(u.page, v)), link |-> l, v |-> v] :
        v \in Validities, l \in Links(u)}

PageResponses(u) ==
    FailResponses \cup {HttpResp(HttpOk, FALSE, b) : b \in GoodPages(u) \cup BadPages}

(* What one request met, told from the responses alone (a record of the   *)
(* run, which the client never reads).                                     *)
Met(class, status, marker) == [class |-> class, status |-> status, marker |-> marker]

ResponseClass(tok, con) ==
    LET failing == IF tok # GoodToken THEN tok ELSE con
    IN  IF failing.kind = "transport" THEN Met("transport", 0, FALSE)
        ELSE IF failing.status # HttpOk
        THEN Met("http", failing.status, failing.marker)
        ELSE IF tok # GoodToken
        THEN Met(IF tok.body.wf THEN "notoken" ELSE "badtokenjson", 0, FALSE)
        ELSE IF ~con.body.wf THEN Met("badjson", 0, FALSE)
        ELSE IF con.body.value.t = "null" THEN Met("valuenull", 0, FALSE)
        ELSE IF con.body.value.t # "array" THEN Met("valueother", 0, FALSE)
        ELSE IF con.body.link.t = "other" THEN Met("linkother", 0, FALSE)
        ELSE Met("page", 0, FALSE)

(***************************************************************************)
(* azure.rs: get_user_groups, one loop iteration per step.                 *)
(***************************************************************************)
should_retry_nomarker(e, credits) == e.e = "BadHTTPResponse" /\ credits > 0

should_retry_offbyone(e, credits) ==
    e.e = "BadHTTPResponse" /\ e.marker /\ credits >= 0

should_retry(e, credits) == e.e = "BadHTTPResponse" /\ e.marker /\ credits > 0

append_batch_front(groups, batch) == batch \o groups

append_batch_lossy(groups, batch) == batch

append_batch(groups, batch) == groups \o batch

UGReturn(r) ==
    /\ pc' = "done"
    /\ result' = r
    /\ user_groups' = <<>>
    /\ UNCHANGED <<url, retries>>

get_user_groups_iter(tok, con) ==
    /\ nreq' = nreq + 1
    /\ last' = ResponseClass(tok, con)
    /\ UNCHANGED <<inp, out>>
    /\ LET r == get_graph_info(tok, con)
       IN  IF ~r.ok
           THEN /\ IF should_retry(r.err, retries)
                   THEN /\ retries' = retries - 1
                        /\ UNCHANGED <<pc, url, user_groups, result>>
                   ELSE UGReturn(r)
                /\ served' = IF pc' = "done" THEN <<>> ELSE served
           ELSE LET batch == extract_user_groups(r.val)
                    link  == has_another_page(r.val)
                IN  IF ~batch.ok THEN UGReturn(batch) /\ served' = <<>>
                    ELSE IF ~link.ok THEN UGReturn(link) /\ served' = <<>>
                    ELSE /\ served' = Append(served, [url  |-> url,
                                                      v    |-> r.val.v,
                                                      next |-> r.val.link])
                         /\ IF link.val.some
                            THEN /\ url' = LinkUrl(link.val.link)
                                 /\ user_groups' = append_batch(user_groups, batch.val)
                                 /\ UNCHANGED <<pc, retries, result>>
                            ELSE /\ pc' = "done"
                                 /\ result' = Ok(append_batch(user_groups, batch.val))
                                 /\ user_groups' = <<>>
                                 /\ UNCHANGED <<url, retries>>

NoValue == [none |-> TRUE]

InitUG ==
    /\ pc = "loop"
    /\ url = FirstUrl
    /\ user_groups = <<>>
    /\ retries = RetryBudget
    /\ result = NoValue
    /\ nreq = 0
    /\ served = <<>>
    /\ last = Met("none", 0, FALSE)
    /\ inp = NoValue
    /\ out = NoValue

NextUG ==
    /\ pc = "loop"
    /\ \E tok \in TokenResponses :
          \E con \in (IF tok = GoodToken THEN PageResponses(url) ELSE {Transport}) :
              get_user_groups_iter(tok, con)

SpecUG == InitUG /\ [][NextUG]_vars

(***************************************************************************)
(* azure.rs: the single-response lookups.  The body of a user lookup is    *)
(* one JSON object (obj), the body of the others has a "value" member.     *)
(***************************************************************************)
get_user_info(tok, con) ==
    LET info_json == get_graph_info(tok, con)
    IN  IF ~info_json.ok THEN info_json
        ELSE IF ~info_json.val.wf THEN Err(BadJSONResponse)
        ELSE extract_user_info(info_json.val.obj)

one_group_lax(values) ==
    IF Len(values) < 1 THEN Err(NotFound) ELSE extract_group_info(values[1])

(* The cardinality test both group lookups make on the "value" array. *)
one_group(values) ==
    IF Len(values) > 1 THEN Err(TooManyResults)
    ELSE IF Len(values) < 1 THEN Err(NotFound)
    ELSE extract_group_info(values[1])

get_group_info(tok, con) ==
    LET group_info_json == get_graph_info(tok, con)
    IN  IF ~group_info_json.ok THEN group_info_json
        ELSE IF ~group_info_json.val.wf THEN Err(BadJSONResponse)
        ELSE IF group_info_json.val.value.t # "array" THEN Err(BadJSONResponse)
        ELSE one_group(group_info_json.val.value.items)

get_group_info_by_sid(tok, con) ==
    LET info_json == get_graph_info(tok, con)
    IN  IF ~info_json.ok THEN info_json
        ELSE IF ~info_json.val.wf THEN Err(BadJSONResponse)
        ELSE IF info_json.val.value.t # "array" THEN Err(BadJSONResponse)
        ELSE one_group(info_json.val.value.items)

get_group_members(tok, con) ==
    LET group_members_json == get_graph_info(tok, con)
    IN  IF ~group_members_json.ok THEN group_members_json
        ELSE extract_group_members(group_members_json.val)

(***************************************************************************)
(* The objects the directory may answer these lookups with.  A security    *)
(* identifier is the domain prefix (or nothing) followed by any text of up *)
(* to MaxRidLen characters, or by one of a few long numerals.              *)
(***************************************************************************)
RidAlphabet == {"0", "1", "9", "+", "-", "x"}

LongRids ==
    {<<"2", "1", "4", "7", "4", "8", "3", "6", "4", "7">>,
     <<"4", "2", "9", "4", "9", "6", "7", "2", "9", "6">>,
     <<"0", "0", "0", "0", "0", "0", "0", "0", "0", "1", "0", "0", "1">>,
     <<"9", "9", "9", "9", "9", "9", "9", "9", "9", "9", "9">>}

SidTails == UNION {[1..k -> RidAlphabet] : k \in 0..MaxRidLen} \cup LongRids

Sids == SidTails \cup {DomainSid \o <<"-">> \o t : t \in SidTails}

FewSids == {DomainSid \o <<"-", "1", "0", "0", "1">>, DomainSid \o <<"-", "9", "9", "9">>}

RawUser(upn, display, sid) ==
    [userPrincipalName |-> upn, displayName |-> display, sid |-> sid]

RawGroup(name, oid, sid) == [displayName |-> name, objectId |-> oid, sid |-> sid]

UserObjects ==
    {RawUser(JStr(<<97>>), JStr(<<65>>), JStr(sid)) : sid \in Sids}
    \cup {RawUser(upn, display, sid) :
            upn \in {JNull, JStr(<<97>>)}, display \in {JNull, JStr(<<65>>)},
            sid \in {JNull} \cup {JStr(x) : x \in FewSids}}

GroupObjects ==
    {RawGroup(JStr(<<103>>), JStr(<<111>>), JStr(sid)) : sid \in Sids}
    \cup {RawGroup(name, oid, sid) :
            name \in {JNull, JStr(<<103>>)}, oid \in {JNull, JStr(<<111>>)},
            sid \in {JNull} \cup {JStr(x) : x \in FewSids}}

(* The few objects lists are made of; each has its own name. *)
MemberSamples ==
    {RawUser(JStr(<<97>>), JStr(<<65>>), JStr(DomainSid \o <<"-", "1", "0", "0", "1">>)),
     RawUser(JStr(<<98>>), JStr(<<66>>), JStr(DomainSid \o <<"-", "+", "2", "0", "0", "0">>)),
     RawUser(JStr(<<99>>), JStr(<<67>>), JStr(DomainSid \o <<"-", "9", "9", "9">>)),
     RawUser(JStr(<<100>>), JStr(<<68>>), JStr(DomainSid \o <<"-", "1", "x", "0", "1">>)),
     RawUser(JStr(<<101>>), JNull, JStr(DomainSid \o <<"-", "1", "0", "0", "2">>))}

GroupSamples ==
    {RawGroup(JStr(<<103>>), JStr(<<111>>), JStr(DomainSid \o <<"-", "1", "0", "0", "1">>)),
     RawGroup(JStr(<<104>>), JStr(<<112>>), JStr(DomainSid \o <<"-", "1", "0", "0", "2">>)),
     RawGroup(JStr(<<105>>), JStr(<<113>>), JStr(DomainSid \o <<"-", "9", "9", "9">>))}

Lists(S) == UNION {[1..k -> S] : k \in 0..MaxListLen}

UserBodies == {[wf |-> FALSE]} \cup {[wf |-> TRUE, obj |-> o] : o \in UserObjects}

ValueBody(value) == [wf |-> TRUE, value |-> value]

GroupBodies ==
    {[wf |-> FALSE], ValueBody(JNull), ValueBody(JOther)}
    \cup {ValueBody(JArray(<<o>>)) : o \in GroupObjects}
    \cup {ValueBody(JArray(l)) : l \in Lists(GroupSamples)}

MemberBodies ==
    {[wf |-> FALSE], ValueBody(JNull), ValueBody(JOther)}
    \cup {ValueBody(JArray(l)) : l \in Lists(MemberSamples)}

(* The answers to one lookup: the token endpoint fails, or it succeeds and *)
(* the graph endpoint fails or answers with one of the bodies.             *)
Answers(bodies) ==
    {<<tok, Transport>> : tok \in TokenResponses \ {GoodToken}}
    \cup {<<GoodToken, con>> : con \in FailResponses}
    \cup {<<GoodToken, HttpResp(HttpOk, FALSE, b)>> : b \in bodies}

(***************************************************************************)
(* The directory client called once: inp is the call and what the          *)
(* directory answered, out is what the call returned.                      *)
(***************************************************************************)
Call(op, a, r) ==
    /\ pc' = "done"
    /\ inp' = [op |-> op, tok |-> a[1], con |-> a[2]]
    /\ out' = r
    /\ UNCHANGED <<url, user_groups, retries, result, nreq, served, last>>

CallGetUserInfo ==
    /\ pc = "call"
    /\ \E a \in Answers(UserBodies) : Call("get_user_info", a, get_user_info(a[1], a[2]))

CallGetGroupInfo ==
    /\ pc = "call"
    /\ \E a \in Answers(GroupBodies) : Call("get_group_info", a, get_group_info(a[1], a[2]))

CallGetGroupInfoBySid ==
    /\ pc = "call"
    /\ \E a \in Answers(GroupBodies) :
        Call("get_group_info_by_sid", a, get_group_info_by_sid(a[1], a[2]))

CallGetGroupMembers ==
    /\ pc = "call"
    /\ \E a \in Answers(MemberBodies) :
        Call("get_group_members", a, get_group_members(a[1], a[2]))

InitCall ==
    /\ pc = "call"
    /\ inp = NoValue
    /\ out = NoValue
    /\ url = FirstUrl
    /\ user_groups = <<>>
    /\ retries = RetryBudget
    /\ result = NoValue
    /\ nreq = 0
    /\ served = <<>>
    /\ last = Met("none", 0, FALSE)

NextClient ==
    \/ CallGetUserInfo
    \/ CallGetGroupInfo
    \/ CallGetGroupInfoBySid
    \/ CallGetGroupMembers

SpecClient == InitCall /\ [][NextClient]_vars

(***************************************************************************)
(* lib.rs: the buffer packing.  The caller's buffer is a function from the *)
(* offsets 0..buflen-1 to bytes, a pointer into it is an offset, and hw is *)
(* the end of the furthest write (an offset counted from the buffer's      *)
(* start, whether or not the buffer reaches that far).                     *)
(***************************************************************************)
NullPtr == -1

InsufficientBuffer == "InsufficientBuffer"

NullPointerError == "NullPointerError"

ZeroByteInString == "ZeroByteInString"

(* Not a value a function returns: unwrap() on an Err panics. *)
Panic == "panic"

(* CString::new(s)?.into_bytes_with_nul(): a NulError, which error.rs      *)
(* turns into ZeroByteInString, when s holds a zero byte.                  *)
CString(s) ==
    IF \E i \in 1..Len(s) : s[i] = 0 THEN Err(ZeroByteInString) ELSE Ok(s \o <<0>>)

Dot == <<46>>

Bang == <<33>>

BinBash == <<47, 98, 105, 110, 47, 98, 97, 115, 104>>

HomeSlash == <<47, 104, 111, 109, 101, 47>>

copy_nonoverlapping(mem, at, bytes) ==
    [i \in DOMAIN mem |->
        IF i >= at /\ i < at + Len(bytes) THEN bytes[i - at + 1] ELSE mem[i]]

Packed(res, st, mem, hw) == [res |-> res, st |-> st, mem |-> mem, hw |-> hw]

passwd_fits_lax(buflen, need) == TRUE

passwd_fits_strict(buflen, need) == buflen > need

(* The capacity test of fill_passwd_buf. *)
passwd_fits(buflen, need) == ~(buflen < need)

(* Where the cursor buf_cur stands when each string is copied. *)
passwd_cursor(at_name, c_name, c_passwd, c_gecos, c_shell) ==
    [pw_name   |-> at_name,
     pw_passwd |-> at_name + Len(c_name),
     pw_gecos  |-> at_name + Len(c_name) + Len(c_passwd),
     pw_shell  |-> at_name + Len(c_name) + Len(c_passwd) + Len(c_gecos),
     pw_dir    |-> at_name + Len(c_name) + Len(c_passwd) + Len(c_gecos) + Len(c_shell)]

fill_passwd_buf(pw, mem, buflen, username, fullname) ==
    LET c_name   == CString(username)
        c_passwd == CString(Dot)
        c_gecos  == CString(fullname)
        c_dir    == CString(HomeSlash \o username)
        c_shell  == CString(BinBash)
    IN  IF buflen = 0 THEN Packed(Err(NullPointerError), pw, mem, 0)
        ELSE IF ~c_name.ok \/ ~c_passwd.ok \/ ~c_gecos.ok \/ ~c_dir.ok \/ ~c_shell.ok
        THEN Packed(Err(ZeroByteInString), pw, mem, 0)
        ELSE IF ~passwd_fits(buflen, Len(c_name.val) + Len(c_passwd.val)
                                      + Len(c_gecos.val) + Len(c_dir.val)
                                      + Len(c_shell.val))
        THEN Packed(Err(InsufficientBuffer), pw, mem, 0)
        ELSE LET at == passwd_cursor(0, c_name.val, c_passwd.val, c_gecos.val,
                                     c_shell.val)
                 m1 == copy_nonoverlapping(mem, at.pw_name, c_name.val)
                 m2 == copy_nonoverlapping(m1, at.pw_passwd, c_passwd.val)
                 m3 == copy_nonoverlapping(m2, at.pw_gecos, c_gecos.val)
                 m4 == copy_nonoverlapping(m3, at.pw_shell, c_shell.val)
                 m5 == copy_nonoverlapping(m4, at.pw_dir, c_dir.val)
             IN  Packed(Ok(TRUE),
                        [pw EXCEPT !.pw_name = at.pw_name,
                                   !.pw_passwd = at.pw_passwd,
                                   !.pw_gecos = at.pw_gecos,
                                   !.pw_shell = at.pw_shell,
                                   !.pw_dir = at.pw_dir],
                        m5,
                        at.pw_dir + Len(c_dir.val))

(* The member names, each with its terminator; unwrap() panics on a name   *)
(* that holds a zero byte.                                                 *)
CMembers(members) == [i \in 1..Len(members) |-> CString(members[i].username)]

RECURSIVE SumLen(_)
SumLen(cs) == IF cs = <<>> THEN 0 ELSE Len(Head(cs).val) + SumLen(Tail(cs))

RECURSIVE copy_members(_, _, _, _)
copy_members(mem, buf_cur, c_members, ptrs) ==
    IF c_members = <<>>
    THEN [mem |-> mem, buf_cur |-> buf_cur, ptrs |-> ptrs]
    ELSE copy_members(copy_nonoverlapping(mem, buf_cur, Head(c_members).val),
                      buf_cur + Len(Head(c_members).val),
                      Tail(c_members),
                      Append(ptrs, buf_cur))

member_ptrs_reversed(ptrs) ==
    [i \in 1..Len(ptrs) |-> ptrs[Len(ptrs) + 1 - i]] \o <<NullPtr>>

(* c_member_ptrs.push(null_mut()), then the copy into the malloc'ed array. *)
member_ptrs(ptrs) == Append(ptrs, NullPtr)

(* The capacity test of fill_group_buf. *)
group_fits(buflen, c_name, c_gpasswd, memberlen) ==
    ~(buflen < Len(c_name) + Len(c_gpasswd) + memberlen)

fill_group_buf(grp, gid, mem, buflen, name, members) ==
    LET c_name    == CString(name)
        c_gpasswd == CString(Bang)
        c_members == CMembers(members)
    IN  IF ~c_name.ok \/ ~c_gpasswd.ok
        THEN Packed(Err(ZeroByteInString), grp, mem, 0)
        ELSE IF \E i \in 1..Len(c_members) : ~c_members[i].ok
        THEN Packed(Err(Panic), grp, mem, 0)
        ELSE IF ~group_fits(buflen, c_name.val, c_gpasswd.val, SumLen(c_members))
        THEN Packed(Err(InsufficientBuffer), grp, mem, 0)
        ELSE LET m1 == copy_nonoverlapping(mem, 0, c_name.val)
                 m2 == copy_nonoverlapping(m1, Len(c_name.val), c_gpasswd.val)
                 mm == copy_members(m2, Len(c_name.val) + Len(c_gpasswd.val),
                                    c_members, <<>>)
             IN  Packed(Ok(TRUE),
                        [gr_name   |-> 0,
                         gr_passwd |-> Len(c_name.val),
                         gr_gid    |-> gid,
                         gr_mem    |-> member_ptrs(mm.ptrs)],
                        mm.mem,
                        mm.buf_cur)

(***************************************************************************)
(* lib.rs: the statuses and the errno each helper stores.                  *)
(***************************************************************************)
Returned(status, errno) == [status |-> status, errno |-> errno]

nss_out_of_service == Returned("TryAgain", "EAGAIN")

nss_insufficient_buffer == Returned("TryAgain", "ERANGE")

nss_input_file_err_retry == Returned("TryAgain", "EAGAIN")

nss_input_file_err == Returned("Unavailable", "ENOENT")

nss_entry_not_available == Returned("NotFound", "ENOENT")

(* What the caller sees after a call: the status, *errnop, the result      *)
(* structure, the buffer, and how far the call wrote.                      *)
Outcome(ret, st, mem, hw) ==
    [status |-> ret.status, errno |-> ret.errno, st |-> st, mem |-> mem, hw |-> hw]

(* A panic in an extern "C" function: the call never returns. *)
Aborted(c) == Outcome(Returned("Abort", c.errno), c.st, c.mem, 0)

(* The match on the directory error that the passwd entry points make. *)
user_lookup_failed(e) ==
    IF e.e = "BadHTTPResponse" /\ e.status = HttpNotFound
    THEN nss_entry_not_available
    ELSE nss_out_of_service

(* The match on the directory error that the group entry points make. *)
group_lookup_failed(e) ==
    IF e.e = "BadHTTPResponse"
    THEN IF e.status = HttpNotFound THEN nss_entry_not_available
         ELSE nss_out_of_service
    ELSE IF e.e \in {"TooManyResults", "NotFound"} THEN nss_entry_not_available
    ELSE nss_out_of_service

passwd_packed(c, p) ==
    IF p.res.ok THEN Outcome(Returned("Success", c.errno), p.st, p.mem, p.hw)
    ELSE IF p.res.err = ZeroByteInString
    THEN Outcome(nss_entry_not_available, p.st, p.mem, p.hw)
    ELSE Outcome(nss_insufficient_buffer, p.st, p.mem, p.hw)

group_packed(c, p) ==
    IF ~p.res.ok /\ p.res.err = Panic THEN Aborted(c)
    ELSE IF p.res.ok THEN Outcome(Returned("Success", c.errno), p.st, p.mem, p.hw)
    ELSE IF p.res.err = InsufficientBuffer
    THEN Outcome(nss_insufficient_buffer, p.st, p.mem, p.hw)
    ELSE Outcome(nss_entry_not_available, p.st, p.mem, p.hw)

(***************************************************************************)
(* lib.rs: the entry points.  c is the call: what the caller passes        *)
(* (buflen, the buffer mem, the result structure st, *errnop), whether the *)
(* name decodes and the configuration file reads, and what the directory   *)
(* answers.                                                                *)
(***************************************************************************)
(* /etc/nssaad.conf, as far as the entry points read it. *)
ConfigFile ==
    [domain_sid |-> DomainSid,
     default_user_group_id |-> 100,
     group_ids |-> [n \in {GroupAt(p, i).groupname : p \in 1..MaxPages, i \in 1..MaxPageLen}
                         \ {GroupAt(2, 1).groupname}
                    |-> 2000 + 10 * n[2] + n[3]]]

(* The HTTP requests one get_graph_info makes: the POST for the token, and *)
(* the GET when a token came back.                                         *)
graph_requests(tok, con) ==
    LET token_json == http_body(tok)
    IN  IF ~token_json.ok THEN 1
        ELSE IF ~extract_token(token_json.val).ok THEN 1
        ELSE 2

(* An outcome, with the number of HTTP requests the call made. *)
Asked(n, o) == o @@ [nreq |-> n]

nss_aad_getpwnam_r(c) ==
    IF ~c.name_ok THEN Asked(0, Outcome(nss_entry_not_available, c.st, c.mem, 0))
    ELSE IF ~c.config_ok THEN Asked(0, Outcome(nss_input_file_err, c.st, c.mem, 0))
    ELSE LET userinfo == get_user_info(c.tok, c.con)
         IN  Asked(graph_requests(c.tok, c.con),
               IF ~userinfo.ok
               THEN Outcome(user_lookup_failed(userinfo.err), c.st, c.mem, 0)
               ELSE passwd_packed(c,
                     fill_passwd_buf([c.st EXCEPT !.pw_uid = userinfo.val.userid,
                                                  !.pw_gid = ConfigFile.default_user_group_id],
                                     c.mem, c.buflen,
                                     userinfo.val.username, userinfo.val.fullname)))

(* The match on the error of get_user_info_by_sid that getpwuid_r makes. *)
user_by_sid_failed(e) ==
    IF e.e = "BadHTTPResponse"
    THEN IF e.status = HttpNotFound THEN nss_entry_not_available
         ELSE nss_out_of_service
    ELSE IF e.e \in {"TooManyResults", "NotFound"} THEN nss_entry_not_available
    ELSE nss_out_of_service

(* c.by_sid is what azure::get_user_info_by_sid returned and the number of *)
(* HTTP requests it made.                                                  *)
nss_aad_getpwuid_r(c) ==
    IF c.uid < MinUsableId
    THEN Asked(0, Outcome(nss_entry_not_available, c.st, c.mem, 0))
    ELSE IF ~c.config_ok THEN Asked(0, Outcome(nss_input_file_err, c.st, c.mem, 0))
    ELSE LET userinfo == c.by_sid.res
         IN  Asked(c.by_sid.requests,
               IF ~userinfo.ok
               THEN Outcome(user_by_sid_failed(userinfo.err), c.st, c.mem, 0)
               ELSE passwd_packed(c,
                     fill_passwd_buf([c.st EXCEPT !.pw_uid = userinfo.val.userid,
                                                  !.pw_gid = ConfigFile.default_user_group_id],
                                     c.mem, c.buflen,
                                     userinfo.val.username, userinfo.val.fullname)))

(* get_group_members(..) with every error replaced by no members. *)
members_or_none(tok2, con2) ==
    LET m == get_group_members(tok2, con2) IN IF m.ok THEN m.val ELSE <<>>

nss_aad_getgrnam_r(c) ==
    IF ~c.name_ok THEN Asked(0, Outcome(nss_entry_not_available, c.st, c.mem, 0))
    ELSE IF ~c.config_ok THEN Asked(0, Outcome(nss_input_file_err, c.st, c.mem, 0))
    ELSE LET groupinfo == get_group_info(c.tok, c.con)
         IN  IF ~groupinfo.ok
             THEN Asked(graph_requests(c.tok, c.con),
                        Outcome(group_lookup_failed(groupinfo.err), c.st, c.mem, 0))
             ELSE Asked(graph_requests(c.tok, c.con) + graph_requests(c.tok2, c.con2),
                        group_packed(c,
                          fill_group_buf(c.st, groupinfo.val.group_id, c.mem, c.buflen,
                                         c.name, members_or_none(c.tok2, c.con2))))

nss_aad_getgrgid_r(c) ==
    IF c.gid < MinUsableId
    THEN Asked(0, Outcome(nss_entry_not_available, c.st, c.mem, 0))
    ELSE IF ~c.config_ok THEN Asked(0, Outcome(nss_input_file_err, c.st, c.mem, 0))
    ELSE LET groupinfo == get_group_info_by_sid(c.tok, c.con)
         IN  IF ~groupinfo.ok
             THEN Asked(graph_requests(c.tok, c.con),
                        Outcome(group_lookup_failed(groupinfo.err), c.st, c.mem, 0))
             ELSE Asked(graph_requests(c.tok, c.con) + graph_requests(c.tok2, c.con2),
                        group_packed(c,
                          fill_group_buf(c.st, c.gid, c.mem, c.buflen,
                                         groupinfo.val.groupname,
                                         members_or_none(c.tok2, c.con2))))

(***************************************************************************)
(* lib.rs: _nss_aad_initgroups_dyn.  The array behind *groupsp is the      *)
(* sequence of the entries the slice group_array spans, entry i of the     *)
(* code at index i + 1; alloc is the size in bytes of the storage behind   *)
(* it, and outside tells that a write fell beyond that storage.            *)
(***************************************************************************)
SizeofGid == 4

RECURSIVE allowed_gids(_, _)
allowed_gids(groups, group_ids) ==
    IF groups = <<>> THEN <<>>
    ELSE IF Head(groups).groupname \in DOMAIN group_ids
    THEN <<group_ids[Head(groups).groupname]>> \o allowed_gids(Tail(groups), group_ids)
    ELSE allowed_gids(Tail(groups), group_ids)

not_skipped_lax(gids, skipgroup) == gids

not_skipped(gids, skipgroup) == SelectSeq(gids, LAMBDA gid : gid # skipgroup)

Dyn(ret, start, size, alloc, array, outside) ==
    [status |-> ret.status, errno |-> ret.errno, start |-> start, size |-> size,
     alloc |-> alloc, array |-> array, outside |-> outside]

(* The slice of new_sz entries over the reallocated storage; what the new  *)
(* entries hold is never read.                                             *)
slice_after_realloc(array, new_sz) ==
    [i \in 1..new_sz |-> IF i <= Len(array) THEN array[i] ELSE 0]

(* The copy loop: an index at or beyond the slice's length panics. *)
RECURSIVE copy_gids(_, _, _, _, _, _)
copy_gids(group_array, idx, gids, limit, alloc, outside) ==
    IF gids = <<>>
    THEN [panicked |-> FALSE, array |-> group_array, idx |-> idx, outside |-> outside]
    ELSE IF idx >= Len(group_array)
    THEN [panicked |-> TRUE, array |-> group_array, idx |-> idx, outside |-> outside]
    ELSE LET written == [group_array EXCEPT ![idx + 1] = Head(gids)]
             beyond  == outside \/ SizeofGid * (idx + 1) > alloc
         IN  IF idx + 1 = limit
             THEN [panicked |-> FALSE, array |-> written, idx |-> idx + 1,
                   outside |-> beyond]
             ELSE copy_gids(written, idx + 1, Tail(gids), limit, alloc, beyond)

(* The call from the result r of get_user_groups on. *)
initgroups_fill(c, r) ==
    IF ~r.ok
    THEN Dyn(nss_entry_not_available, c.start, c.size, c.alloc, c.array, FALSE)
    ELSE LET gids == not_skipped(allowed_gids(r.val, ConfigFile.group_ids), c.skipgroup)
         IN  IF gids = <<>>
             THEN Dyn(Returned("Success", c.errno), c.start, c.size, c.alloc, c.array,
                      FALSE)
             ELSE LET grow   == c.start + Len(gids) > c.size
                      new_sz == Min(c.start + Len(gids), c.limit)
                      group_arraysz == IF grow THEN new_sz ELSE c.size
                      alloc  == IF grow THEN new_sz ELSE c.alloc
                      w == copy_gids(IF grow THEN slice_after_realloc(c.array, new_sz)
                                     ELSE c.array,
                                     c.start, gids, c.limit, alloc, FALSE)
                  IN  IF w.panicked
                      THEN Dyn(Returned("Abort", c.errno), c.start, group_arraysz, alloc,
                               w.array, w.outside)
                      ELSE Dyn(Returned("Success", c.errno), w.idx, group_arraysz, alloc,
                               w.array, w.outside)

(* A write beyond the storage is undefined behaviour: the call may return  *)
(* as if the storage had been there, or the process may die of it.         *)
Builds(o) ==
    IF o.outside THEN {o, [o EXCEPT !.status = "Abort"]} ELSE {o}

(***************************************************************************)
(* The calls the name-service switch may make, and what they meet.         *)
(***************************************************************************)
NameBytes == {0, 97, 98}

Names == UNION {[1..k -> NameBytes] : k \in 0..MaxNameLen}

DisplayNames == {<<65>>, <<65, 32, 66>>, <<65, 0>>}

GroupNames == {<<>>, <<103>>, <<103, 104>>, <<103, 0>>}

BufLens == 0..MaxBuf

GrBufLens == 0..MaxGrBuf

BufferBefore(buflen) == [i \in 0..(buflen - 1) |-> 170]

PasswdBefore ==
    [pw_name |-> NullPtr, pw_passwd |-> NullPtr, pw_uid |-> 0, pw_gid |-> 0,
     pw_gecos |-> NullPtr, pw_dir |-> NullPtr, pw_shell |-> NullPtr]

GroupBefore ==
    [gr_name |-> NullPtr, gr_passwd |-> NullPtr, gr_gid |-> 0, gr_mem |-> <<>>]

PwBodies ==
    {[wf |-> FALSE]}
    \cup {[wf |-> TRUE, obj |-> RawUser(JStr(n), JStr(d), JStr(sid))] :
            n \in Names, d \in DisplayNames, sid \in FewSids}
    \cup {[wf |-> TRUE, obj |-> RawUser(JNull, JStr(<<65>>), JNull)]}

GrBodies ==
    {[wf |-> FALSE], ValueBody(JOther), ValueBody(JArray(<<>>))}
    \cup {ValueBody(JArray(<<RawGroup(JStr(n), JStr(<<111>>), JStr(sid))>>)) :
            n \in GroupNames, sid \in FewSids}
    \cup {ValueBody(JArray(l)) : l \in [1..2 -> GroupSamples]}

MemberObjects ==
    {RawUser(JStr(<<97>>), JStr(<<65>>), JStr(DomainSid \o <<"-", "1", "0", "0", "1">>)),
     RawUser(JStr(<<98, 99>>), JStr(<<66>>), JStr(DomainSid \o <<"-", "1", "0", "0", "2">>)),
     RawUser(JStr(<<>>), JStr(<<67>>), JStr(DomainSid \o <<"-", "1", "0", "0", "3">>)),
     RawUser(JStr(<<97, 0>>), JStr(<<68>>), JStr(DomainSid \o <<"-", "1", "0", "0", "4">>)),
     RawUser(JStr(<<100>>), JStr(<<69>>), JStr(DomainSid \o <<"-", "9", "9", "9">>))}

MemberAnswers ==
    {<<GoodToken, Transport>>, <<GoodToken, HttpResp(HttpOk, FALSE, ValueBody(JNull))>>}
    \cup {<<GoodToken, HttpResp(HttpOk, FALSE, ValueBody(JArray(l)))>> :
            l \in Lists(MemberObjects)}

(* Whether the name decodes and the configuration reads, and the answer    *)
(* of the directory when both do.                                          *)
Lookups(answers) ==
    {[name_ok |-> FALSE, config_ok |-> TRUE, a |-> <<Transport, Transport>>],
     [name_ok |-> TRUE, config_ok |-> FALSE, a |-> <<Transport, Transport>>]}
    \cup {[name_ok |-> TRUE, config_ok |-> TRUE, a |-> a] : a \in answers}

NssCall(op, l, buflen, st) ==
    [op |-> op, name_ok |-> l.name_ok, config_ok |-> l.config_ok,
     tok |-> l.a[1], con |-> l.a[2],
     buflen |-> buflen, mem |-> BufferBefore(buflen), st |-> st, errno |-> "unset"]

Return(c, o) ==
    /\ pc' = "done"
    /\ inp' = c
    /\ out' = o
    /\ UNCHANGED <<url, user_groups, retries, result, nreq, served, last>>

GetpwnamR ==
    /\ pc = "call"
    /\ \E l \in Lookups(Answers(PwBodies)), buflen \in BufLens :
          LET c == NssCall("getpwnam_r", l, buflen, PasswdBefore)
          IN  Return(c, nss_aad_getpwnam_r(c))

(* The members' answer is drawn where the entry point asks for it: after   *)
(* the group was found.                                                    *)
MembersAsked(found) ==
    IF found THEN MemberAnswers ELSE {<<Transport, Transport>>}

GetgrnamR ==
    /\ pc = "call"
    /\ \E l \in Lookups(Answers(GrBodies)), buflen \in GrBufLens,
          name \in {n \in GroupNames : \A i \in 1..Len(n) : n[i] # 0} :
          \E m \in MembersAsked(l.name_ok /\ l.config_ok
                                /\ get_group_info(l.a[1], l.a[2]).ok) :
             LET c == NssCall("getgrnam_r", l, buflen, GroupBefore)
                      @@ [name |-> name, tok2 |-> m[1], con2 |-> m[2]]
             IN  Return(c, nss_aad_getgrnam_r(c))

GetgrgidR ==
    /\ pc = "call"
    /\ \E l \in Lookups(Answers(GrBodies)), buflen \in GrBufLens, gid \in {999, 1001} :
          \E m \in MembersAsked(gid >= MinUsableId /\ l.config_ok
                                /\ get_group_info_by_sid(l.a[1], l.a[2]).ok) :
             LET c == NssCall("getgrgid_r", l, buflen, GroupBefore)
                      @@ [gid |-> gid, tok2 |-> m[1], con2 |-> m[2]]
             IN  Return(c, nss_aad_getgrgid_r(c))

(* azure::get_user_info_by_sid is called at lib.rs:476 and defined nowhere  *)
(* in the repository: what it returns is drawn from its result type, any   *)
(* error of the directory client or a user record, after one or two HTTP   *)
(* requests.                                                               *)
UserBySidResults ==
    {Err(e) : e \in {BadHTTPResponse(HttpNotFound, FALSE), BadHTTPResponse(500, FALSE),
                     NoAccessToken, BadJSONResponse, HTTPError, UnusableImmutableID,
                     TooManyResults, NotFound}}
    \cup {Ok([username |-> n, fullname |-> <<65>>, userid |-> MinUsableId + 1]) :
            n \in {<<97>>, <<97, 98>>, <<97, 0>>}}

GetpwuidR ==
    /\ pc = "call"
    /\ \E uid \in {MinUsableId - 1, MinUsableId + 1}, config_ok \in BOOLEAN,
          res \in UserBySidResults, requests \in 1..2, buflen \in BufLens :
          LET c == [op |-> "getpwuid_r", uid |-> uid, name_ok |-> TRUE,
                    config_ok |-> config_ok,
                    by_sid |-> [res |-> res, requests |-> requests],
                    buflen |-> buflen, mem |-> BufferBefore(buflen),
                    st |-> PasswdBefore, errno |-> "unset"]
          IN  Return(c, nss_aad_getpwuid_r(c))

NextNss ==
    \/ GetpwnamR
    \/ GetpwuidR
    \/ GetgrnamR
    \/ GetgrgidR

SpecNss == InitCall /\ [][NextNss]_vars

(***************************************************************************)
(* A call of _nss_aad_initgroups_dyn: the entry, the iterations of         *)
(* get_user_groups, then the filling of the caller's array.                *)
(***************************************************************************)
ArrayBefore(size) == [i \in 1..size |-> 500 + i]

DynCall(name_ok, config_ok, skipgroup, start, size, limit) ==
    [op |-> "initgroups_dyn", name_ok |-> name_ok, config_ok |-> config_ok,
     skipgroup |-> skipgroup, start |-> start, size |-> size, limit |-> limit,
     array |-> ArrayBefore(size), alloc |-> SizeofGid * size, errno |-> "unset"]

(* The caller has filled start entries of its size entries, and not more   *)
(* than limit of them.                                                     *)
DynCalls ==
    {DynCall(FALSE, TRUE, 0, 0, MaxArray, MaxArray),
     DynCall(TRUE, FALSE, 0, 0, MaxArray, MaxArray)}
    \cup {DynCall(TRUE, TRUE, skipgroup, start, size, limit) :
            skipgroup \in {0, ConfigFile.group_ids[GroupAt(1, 1).groupname]},
            start \in 0..MaxArray,
            size \in 0..MaxArray,
            limit \in 0..MaxArray}

(* What a request of the call may meet: a failure, or a page of well-      *)
(* formed groups.                                                          *)
DynResponses(u) ==
    {<<Transport, Transport>>,
     <<GoodToken, HttpResp(HttpNotFound, FALSE, NoBody)>>}
    \cup {<<GoodToken, HttpResp(HttpOk, FALSE, b)>> :
            b \in {g \in GoodPages(u) : \A i \in DOMAIN g.v : g.v[i]}}

InitDyn ==
    /\ pc = "entry"
    /\ url = FirstUrl
    /\ user_groups = <<>>
    /\ retries = RetryBudget
    /\ result = NoValue
    /\ nreq = 0
    /\ served = <<>>
    /\ last = Met("none", 0, FALSE)
    /\ inp = NoValue
    /\ out = NoValue

InitgroupsEnter ==
    /\ pc = "entry"
    /\ \E c \in {d \in DynCalls : d.start <= d.size /\ d.start <= d.limit} :
          /\ inp' = c
          /\ IF ~c.name_ok
             THEN /\ pc' = "returned"
                  /\ out' = Dyn(nss_entry_not_available, c.start, c.size, c.alloc,
                                c.array, FALSE)
             ELSE IF ~c.config_ok
             THEN /\ pc' = "returned"
                  /\ out' = Dyn(nss_input_file_err, c.start, c.size, c.alloc,
                                c.array, FALSE)
             ELSE /\ pc' = "loop"
                  /\ out' = out
    /\ UNCHANGED <<url, user_groups, retries, result, nreq, served, last>>

InitgroupsFetch ==
    /\ pc = "loop"
    /\ \E a \in DynResponses(url) : get_user_groups_iter(a[1], a[2])

InitgroupsFill ==
    /\ pc = "done"
    /\ inp.op = "initgroups_dyn"
    /\ \E o \in Builds(initgroups_fill(inp, result)) : out' = o
    /\ pc' = "returned"
    /\ UNCHANGED <<url, user_groups, retries, result, nreq, served, last, inp>>

NextDyn ==
    \/ InitgroupsEnter
    \/ InitgroupsFetch
    \/ InitgroupsFill

SpecDyn == InitDyn /\ [][NextDyn]_vars

(***************************************************************************)
(* The five entry points together: one call of any of them.                *)
(***************************************************************************)
InitEntry == InitCall \/ InitDyn

NextEntry == NextNss \/ NextDyn

SpecEntry == InitEntry /\ [][NextEntry]_vars

(***************************************************************************)
(* Lookups on several threads of one process.  An entry point keeps the    *)
(* configuration, the HTTP client and the directory's answers in locals of *)
(* the call (lib.rs:544, azure.rs:296-309) and the sources declare no      *)
(* static; what the threads have in common is the memory of the process.   *)
(* pc, inp, result and out are here functions of the thread: its position, *)
(* its call, the outcome its locals hold, and what its caller's memory     *)
(* holds (region) and was returned (status, errno).                        *)
(***************************************************************************)
Threads == 1..MaxThreads

nss_aad_initgroups_dyn(c, r) ==
    IF ~c.name_ok THEN Dyn(nss_entry_not_available, c.start, c.size, c.alloc, c.array, FALSE)
    ELSE IF ~c.config_ok
    THEN Dyn(nss_input_file_err, c.start, c.size, c.alloc, c.array, FALSE)
    ELSE initgroups_fill(c, r)

(* What get_user_groups hands to initgroups_dyn: an error or the groups of *)
(* the pages.                                                              *)
Memberships ==
    {Err(HTTPError), Ok(<<>>), Ok(<<GroupAt(1, 1)>>), Ok(<<GroupAt(1, 1), GroupAt(1, 2)>>)}

(* The calls a thread may make: getpwnam_r meeting a transport failure or  *)
(* one user, initgroups_dyn with room for one to MaxArray ids.             *)
ThreadCalls ==
    {NssCall("getpwnam_r", l, buflen, PasswdBefore) :
        l \in Lookups({<<Transport, Transport>>,
                       <<GoodToken,
                         HttpResp(HttpOk, FALSE,
                                  [wf |-> TRUE,
                                   obj |-> RawUser(JStr(<<97>>), JStr(<<65>>),
                                             JStr(DomainSid
                                                  \o <<"-", "1", "0", "0", "1">>))])>>}),
        buflen \in {0, MaxBuf - 4, MaxBuf}}
    \cup {DynCall(TRUE, config_ok, 0, c[1], c[2], MaxArray) @@ [membership |-> r] :
            config_ok \in BOOLEAN,
            c \in {d \in (0..1) \X (1..MaxArray) : d[1] <= d[2]},
            r \in Memberships}

(* The outcomes a call may have, told from what it was given alone. *)
entry_outcomes(c) ==
    IF c.op = "initgroups_dyn"
    THEN Builds(nss_aad_initgroups_dyn(c, c.membership))
    ELSE {nss_aad_getpwnam_r(c)}

(* The caller's output memory: the buffer, or the array of group ids. *)
Region(c) == IF c.op = "initgroups_dyn" THEN c.array ELSE c.mem

(* The region after the call wrote what the outcome o tells, cur being     *)
(* what the memory held: the packing writes the bytes below its high-water *)
(* mark, initgroups_dyn the entries it assigned.                           *)
Written(c, o, cur) ==
    IF c.op = "initgroups_dyn"
    THEN [i \in 1..Len(o.array) |->
             IF i <= Len(c.array) /\ o.array[i] = c.array[i]
             THEN (IF i <= Len(cur) THEN cur[i] ELSE c.array[i])
             ELSE o.array[i]]
    ELSE [i \in DOMAIN cur |-> IF i < o.hw THEN o.mem[i] ELSE cur[i]]

(* A gid_t stored at offset p of another call's region: an entry of an     *)
(* array, or four bytes of a buffer, the low byte first.                   *)
Clobber(c, cur, p, gid) ==
    IF c.op = "initgroups_dyn"
    THEN [cur EXCEPT ![p] = gid]
    ELSE [i \in DOMAIN cur |->
             IF p <= i /\ i < p + SizeofGid
             THEN (gid \div (256 ^ (i - p))) % 256
             ELSE cur[i]]

(* The ids the call stored beyond the storage realloc gave it. *)
Strays(o) ==
    IF o.outside
    THEN {o.array[i] : i \in {j \in 1..Len(o.array) :
                                 SizeofGid * j > o.alloc /\ o.array[j] >= MinUsableId}}
    ELSE {}

InitConc ==
    /\ pc = [t \in Threads |-> "idle"]
    /\ inp = [t \in Threads |-> NoValue]
    /\ result = [t \in Threads |-> NoValue]
    /\ out = [t \in Threads |-> NoValue]
    /\ url = FirstUrl
    /\ user_groups = <<>>
    /\ retries = RetryBudget
    /\ nreq = 0
    /\ served = <<>>
    /\ last = Met("none", 0, FALSE)

(* The caller on thread t enters an entry point with its own memory. *)
ThreadCall(t) ==
    /\ \A u \in Threads : pc[u] # "aborted"
    /\ pc[t] = "idle"
    /\ \E c \in ThreadCalls :
          /\ inp' = [inp EXCEPT ![t] = c]
          /\ out' = [out EXCEPT ![t] = [status |-> "none", errno |-> c.errno,
                                        region |-> Region(c)]]
    /\ pc' = [pc EXCEPT ![t] = "running"]
    /\ UNCHANGED <<url, user_groups, retries, result, nreq, served, last>>

(* The call on thread t asks the directory and writes: its own region,     *)
(* and, an id stored beyond the storage, memory that is not its own, some  *)
(* other memory of the process or the region of another call.              *)
ThreadWrite(t) ==
    /\ \A u \in Threads : pc[u] # "aborted"
    /\ pc[t] = "running"
    /\ \E o \in entry_outcomes(inp[t]) :
          /\ result' = [result EXCEPT ![t] = o]
          /\ LET own == [out EXCEPT ![t].region = Written(inp[t], o, out[t].region)]
             IN  \/ out' = own
                 \/ /\ inp[t].op = "initgroups_dyn"
                    /\ \E u \in Threads \ {t}, gid \in Strays(o) :
                          /\ pc[u] # "idle"
                          /\ \E p \in DOMAIN out[u].region :
                                out' = [own EXCEPT ![u].region =
                                           Clobber(inp[u], out[u].region, p, gid)]
    /\ pc' = [pc EXCEPT ![t] = "written"]
    /\ UNCHANGED <<url, user_groups, retries, nreq, served, last, inp>>

(* The call on thread t returns its status, or the process dies with it. *)
ThreadReturn(t) ==
    /\ \A u \in Threads : pc[u] # "aborted"
    /\ pc[t] = "written"
    /\ out' = [out EXCEPT ![t].status = result[t].status, ![t].errno = result[t].errno]
    /\ pc' = [pc EXCEPT ![t] = IF result[t].status = "Abort" THEN "aborted"
                               ELSE "returned"]
    /\ UNCHANGED <<url, user_groups, retries, result, nreq, served, last, inp>>

NextConc ==
    \/ \E t \in Threads : ThreadCall(t)
    \/ \E t \in Threads : ThreadWrite(t)
    \/ \E t \in Threads : ThreadReturn(t)

SpecConc == InitConc /\ [][NextConc]_vars

(***************************************************************************)
(* What get_user_groups owes its caller, told from the pages served.       *)
(***************************************************************************)
ExpectedPage(entry) ==
    LET idx == SelectSeq([i \in 1..Len(entry.v) |-> i], LAMBDA i : entry.v[i])
    IN  [j \in 1..Len(idx) |-> GroupAt(entry.url.page, idx[j])]

ExpectedAll(pages) == Concat([k \in 1..Len(pages) |-> ExpectedPage(pages[k])])

ChainFollowed(pages) ==
    /\ pages # <<>>
    /\ \A k \in 1..Len(pages) :
          /\ pages[k].url = [page |-> k]
          /\ pages[k].next = IF k < Len(pages) THEN JStr(k + 1) ELSE JNull

Expired(met) == met.class = "http" /\ met.marker

ErrFor(met) ==
    CASE met.class = "transport" -> HTTPError
      [] met.class = "http" -> BadHTTPResponse(met.status, met.marker)
      [] met.class = "notoken" -> NoAccessToken
      [] met.class = "valuenull" -> NotFound
      [] OTHER -> BadJSONResponse

(* C1: a failure carrying the expired-page-token marker makes the call     *)
(* request the same URL again while credits remain; the call starts with 5 *)
(* credits, each retry is one more request and costs one credit, credits   *)
(* never come back when a later page is reached, and an expired-token      *)
(* failure met with no credit left ends the call with that HTTP failure    *)
(* (six in a row: six requests, five of them retries).                     *)
C1_RetryBudget ==
    [][/\ retries \in 0..RetryBudget
       /\ retries' \in 0..retries
       /\ nreq' = nreq + 1
       /\ pc = "loop" => nreq = Len(served) + (RetryBudget - retries)
       /\ (Expired(last') /\ retries > 0) =>
             /\ pc' = "loop"
             /\ url' = url
             /\ retries' = retries - 1
             /\ user_groups' = user_groups
       /\ (Expired(last') /\ retries = 0) =>
             /\ pc' = "done"
             /\ result' = Err(BadHTTPResponse(last'.status, TRUE))
       /\ retries' # retries => Expired(last')]_vars

C1_Witness ==
    /\ pc = "done"
    /\ result = Err(BadHTTPResponse(500, TRUE))
    /\ retries = 0
    /\ nreq = RetryBudget + 1

(* C2: when the retry of a URL that failed with the expired-token marker   *)
(* succeeds, the call goes on from that page: the page served is the one   *)
(* of the retried URL, its records follow the records of the earlier       *)
(* pages, which are kept once each, the successful request costs no        *)
(* credit, and the credits spent equal the failed requests (one for one    *)
(* failure).                                                               *)
C2_RetryRecovery ==
    [][(pc = "loop" /\ Expired(last) /\ last'.class = "page") =>
          /\ retries' = retries
          /\ RetryBudget - retries' = nreq' - Len(served')
          /\ Len(served') = Len(served) + 1
          /\ served'[Len(served')].url = url
          /\ user_groups = ExpectedAll(served)
          /\ IF pc' = "loop"
             THEN user_groups' = user_groups \o ExpectedPage(served'[Len(served')])
             ELSE result' = Ok(user_groups \o ExpectedPage(served'[Len(served')]))]_vars

C2_Witness ==
    /\ pc = "done"
    /\ result.ok
    /\ retries = RetryBudget - 1
    /\ nreq = 3
    /\ Len(served) = 2
    /\ served[1].v = <<TRUE, TRUE>>
    /\ served[2].v = <<TRUE>>
    /\ Len(result.val) = 3

(* C3: a request that fails in any other way (an HTTP failure without the  *)
(* marker, a transport error, no access token, a malformed token or page)  *)
(* ends the call at once with that error: the step is the call's last, it  *)
(* is one request, and it costs no credit, however many pages were         *)
(* fetched; a call that has ended issues no request.                       *)
C3_FailFast ==
    /\ [][(last'.class # "page" /\ ~Expired(last')) =>
             /\ pc' = "done"
             /\ result' = Err(ErrFor(last'))
             /\ retries' = retries
             /\ nreq' = nreq + 1]_vars
    /\ [][pc = "loop"]_vars

C3_Witness ==
    /\ pc = "done"
    /\ result = Err(HTTPError)
    /\ retries = RetryBudget
    /\ nreq = 3

(* C4: a successful call has followed the continuation links from the      *)
(* first URL to a page without one, and returns the records that pass      *)
(* validation, page after page and in response order within a page; the    *)
(* objects that fail validation are left out.                              *)
C4_PaginationResult ==
    (pc = "done" /\ result.ok) =>
        /\ ChainFollowed(served)
        /\ result.val = ExpectedAll(served)

C4_Witness ==
    /\ pc = "done"
    /\ result.ok
    /\ Len(served) = 3
    /\ \A k \in 1..3 : served[k].v = <<TRUE, TRUE>>
    /\ Len(result.val) = 6

C4_WitnessDropped ==
    /\ pc = "done"
    /\ result.ok
    /\ Len(served) = 2
    /\ served[1].v = <<FALSE, TRUE>>
    /\ served[2].v = <<TRUE, FALSE>>
    /\ result.val = <<GroupAt(1, 2), GroupAt(2, 1)>>

(***************************************************************************)
(* What the numeric id of a record owes the security identifier it was     *)
(* read from, told without parsing: the final component is the text after  *)
(* the last hyphen, and it reads as n when, an optional "+" and leading    *)
(* zeros aside, it is the decimal numeral of n.                            *)
(***************************************************************************)
IsFinalComponent(c, sid) ==
    /\ Len(c) <= Len(sid)
    /\ c = SubSeq(sid, Len(sid) - Len(c) + 1, Len(sid))
    /\ \A i \in 1..Len(c) : c[i] # "-"
    /\ Len(c) < Len(sid) => sid[Len(sid) - Len(c)] = "-"

FinalComponent(sid) ==
    CHOOSE c \in {SubSeq(sid, k, Len(sid)) : k \in 1..(Len(sid) + 1)} :
        IsFinalComponent(c, sid)

Unsigned(c) == IF c # <<>> /\ c[1] = "+" THEN Tail(c) ELSE c

IsNumeral(c) ==
    /\ Unsigned(c) # <<>>
    /\ \A i \in 1..Len(Unsigned(c)) : \E d \in 1..10 : Unsigned(c)[i] = Digits[d]

Significant(c) == StripZeros(Unsigned(c))

ReadsAs(c, n) == IsNumeral(c) /\ Significant(c) = ToDecimal(n)

(* No unsigned 32-bit value, or a value below 1000. *)
Unusable(c) ==
    \/ ~IsNumeral(c)
    \/ Len(Significant(c)) > 10
    \/ Len(Significant(c)) = 10 /\ NumeralGreater(Significant(c), U32MaxDigits)
    \/ Len(Significant(c)) < 4

IdFromSid(id, sid) ==
    /\ id >= MinUsableId
    /\ sid.t = "str"
    /\ ReadsAs(FinalComponent(sid.s), id)

TheObject == IF inp.op = "get_user_info" THEN inp.con.body.obj
             ELSE inp.con.body.value.items[1]

OthersWellFormed(o) ==
    /\ o.displayName.t = "str"
    /\ o.sid.t = "str"
    /\ IF inp.op = "get_user_info" THEN o.userPrincipalName.t = "str"
       ELSE o.objectId.t = "str"

AnswersOneObject ==
    /\ pc = "done"
    /\ inp.tok = GoodToken
    /\ inp.con.kind = "http"
    /\ inp.con.status = HttpOk
    /\ inp.con.body.wf
    /\ IF inp.op = "get_user_info" THEN TRUE
       ELSE inp.con.body.value.t = "array" /\ Len(inp.con.body.value.items) = 1

RecordId(r) == IF inp.op = "get_user_info" THEN r.userid ELSE r.group_id

(* C5: every record the directory client returns has a numeric id of at    *)
(* least 1000 that is the final hyphen-delimited component of the record's *)
(* security identifier (a single lookup's record, and every member of a    *)
(* membership list); an object whose final component is no unsigned 32-bit *)
(* number or is below 1000 yields UnusableImmutableID when its other       *)
(* fields are well-formed.                                                 *)
C5_NumericId ==
    /\ (pc = "done" /\ inp.op = "get_group_members" /\ out.ok) =>
          \A k \in 1..Len(out.val) :
              \E j \in 1..Len(inp.con.body.value.items) :
                  LET o == inp.con.body.value.items[j]
                  IN  /\ o.userPrincipalName = JStr(out.val[k].username)
                      /\ IdFromSid(out.val[k].userid, o.sid)
    /\ (pc = "done" /\ inp.op # "get_group_members" /\ out.ok) =>
          /\ AnswersOneObject
          /\ IdFromSid(RecordId(out.val), TheObject.sid)
    /\ (AnswersOneObject /\ inp.op # "get_group_members"
            /\ OthersWellFormed(TheObject)
            /\ Unusable(FinalComponent(TheObject.sid.s))) =>
          out = Err(UnusableImmutableID)

C5_Witness ==
    /\ AnswersOneObject
    /\ inp.op = "get_user_info"
    /\ TheObject = RawUser(JStr(<<97>>), JStr(<<65>>), JStr(DomainSid \o <<"-", "9", "9", "9">>))
    /\ out = Err(UnusableImmutableID)

C5_WitnessList ==
    /\ pc = "done"
    /\ inp.op = "get_group_members"
    /\ out.ok
    /\ Len(inp.con.body.value.items) = 2
    /\ Len(out.val) = 1
    /\ out.val[1].userid = 2000

(* C9: both group lookups answer an empty "value" array with NotFound, an  *)
(* array of two or more objects with TooManyResults, and an array of one   *)
(* object with what extract_group_info makes of that object.               *)
C9_Cardinality ==
    (/\ pc = "done"
     /\ inp.op \in {"get_group_info", "get_group_info_by_sid"}
     /\ inp.tok = GoodToken
     /\ inp.con.kind = "http"
     /\ inp.con.status = HttpOk
     /\ inp.con.body.wf
     /\ inp.con.body.value.t = "array") =>
        LET matches == inp.con.body.value.items
        IN  /\ Len(matches) = 0 => out = Err(NotFound)
            /\ Len(matches) >= 2 => out = Err(TooManyResults)
            /\ Len(matches) = 1 =>
                  /\ out = extract_group_info(matches[1])
                  /\ (OthersWellFormed(matches[1])
                        /\ ~Unusable(FinalComponent(matches[1].sid.s))) =>
                        /\ out.ok
                        /\ out.val.groupname = matches[1].displayName.s
                        /\ out.val.object_id = matches[1].objectId.s

C9_Witness ==
    /\ pc = "done"
    /\ inp.op = "get_group_info_by_sid"
    /\ inp.con.kind = "http"
    /\ inp.con.status = HttpOk
    /\ inp.con.body.wf
    /\ inp.con.body.value.t = "array"
    /\ Len(inp.con.body.value.items) = 2
    /\ out = Err(TooManyResults)

(***************************************************************************)
(* What the packing owes the caller of getpwnam_r, getgrnam_r and          *)
(* getgrgid_r, told from the call and from what it left behind.            *)
(***************************************************************************)
NoZero(str) == \A i \in 1..Len(str) : str[i] # 0

RECURSIVE RequiredLen(_)
RequiredLen(strs) ==
    IF strs = <<>> THEN 0 ELSE Len(Head(strs)) + 1 + RequiredLen(Tail(strs))

(* The nul-terminated string at offset p of the buffer reads str. *)
PointsAt(mem, p, str) ==
    /\ p >= 0
    /\ p + Len(str) \in DOMAIN mem
    /\ \A i \in 1..Len(str) : mem[p + i - 1] = str[i] /\ str[i] # 0
    /\ mem[p + Len(str)] = 0

IsPasswdOp == inp.op \in {"getpwnam_r", "getpwuid_r"}

TheUser ==
    IF inp.op = "getpwuid_r" THEN inp.by_sid.res ELSE get_user_info(inp.tok, inp.con)

PasswdCall ==
    /\ pc = "done"
    /\ \/ inp.op = "getpwnam_r" /\ inp.name_ok
       \/ inp.op = "getpwuid_r" /\ inp.uid >= MinUsableId
    /\ inp.config_ok
    /\ TheUser.ok

PasswdStrings ==
    LET user == TheUser.val
    IN  <<user.username, Dot, user.fullname, BinBash, HomeSlash \o user.username>>

TheGroup ==
    IF inp.op = "getgrnam_r" THEN get_group_info(inp.tok, inp.con)
    ELSE get_group_info_by_sid(inp.tok, inp.con)

GroupCall ==
    /\ pc = "done"
    /\ \/ inp.op = "getgrnam_r" /\ inp.name_ok
       \/ inp.op = "getgrgid_r" /\ inp.gid >= MinUsableId
    /\ inp.config_ok
    /\ TheGroup.ok

TheMembers == members_or_none(inp.tok2, inp.con2)

PackedGroupName ==
    IF inp.op = "getgrnam_r" THEN inp.name ELSE TheGroup.val.groupname

GroupStrings ==
    LET members == TheMembers
    IN  <<PackedGroupName, Bang>> \o [i \in 1..Len(members) |-> members[i].username]

PackingCall == PasswdCall \/ GroupCall

PackedStrings == IF IsPasswdOp THEN PasswdStrings ELSE GroupStrings

PackingResult ==
    IF IsPasswdOp
    THEN fill_passwd_buf(inp.st, inp.mem, inp.buflen,
                         TheUser.val.username, TheUser.val.fullname).res
    ELSE fill_group_buf(inp.st, 0, inp.mem, inp.buflen, PackedGroupName, TheMembers).res

TooSmall ==
    /\ PackingCall
    /\ LET strs == PackedStrings IN RequiredLen(strs) > inp.buflen

C6_WitnessGroup ==
    /\ GroupCall
    /\ Len(TheMembers) = 2
    /\ RequiredLen(GroupStrings) = inp.buflen + 1
    /\ out.status = "TryAgain" /\ out.errno = "ERANGE"

Disjoint(p, lp, q, lq) == p + lp + 1 <= q \/ q + lq + 1 <= p

PasswdLaidOut ==
    LET ptrs == <<out.st.pw_name, out.st.pw_passwd, out.st.pw_gecos,
                  out.st.pw_shell, out.st.pw_dir>>
        strs == PasswdStrings
    IN  /\ out.status = "Success"
        /\ \A k \in 1..5 : PointsAt(out.mem, ptrs[k], strs[k])
        /\ \A k \in 1..5 : \A j \in 1..5 :
              k # j => Disjoint(ptrs[k], Len(strs[k]), ptrs[j], Len(strs[j]))
        /\ out.hw <= inp.buflen
        /\ DOMAIN out.mem = DOMAIN inp.mem

(* C7 as the specification states it: for every user record and every     *)
(* capacity of at least the required length, the packing succeeds and the  *)
(* five pointers read the five strings.                                    *)
C7_AsStated ==
    (PasswdCall /\ inp.buflen >= RequiredLen(PasswdStrings)) => PasswdLaidOut

(* C7: for every user record whose user name and display name hold no zero *)
(* byte and every capacity of at least the required length (the required   *)
(* length itself included), getpwnam_r succeeds, the login, password,      *)
(* gecos, shell and home pointers each point inside the buffer at a        *)
(* nul-terminated string reading the user name, ".", the display name,     *)
(* "/bin/bash" and "/home/" + user name, the five strings do not overlap,  *)
(* and nothing is written at or beyond the capacity.                       *)
C7_PasswdRoundTrip ==
    (/\ PasswdCall
     /\ NoZero(TheUser.val.username) /\ NoZero(TheUser.val.fullname)
     /\ inp.buflen >= RequiredLen(PasswdStrings)) => PasswdLaidOut

C7_Witness ==
    /\ PasswdCall
    /\ Len(TheUser.val.username) = MaxNameLen
    /\ inp.buflen = RequiredLen(PasswdStrings)
    /\ out.status = "Success"
    /\ out.st.pw_dir + Len(HomeSlash) + MaxNameLen + 1 = inp.buflen

(* C8: when fill_group_buf succeeds with n members, the member pointer     *)
(* array has n + 1 entries, the last is the null pointer, entry i points   *)
(* inside the buffer at a nul-terminated copy of the i-th member's name in *)
(* the order the directory client returned them, the group name and "!"    *)
(* are packed before the members, and nothing is written at or beyond the  *)
(* capacity.                                                               *)
C8_GroupLayout ==
    (GroupCall /\ out.status = "Success") =>
        LET members == TheMembers
            n == Len(members)
            gr_mem == out.st.gr_mem
            name == PackedGroupName
        IN  /\ Len(gr_mem) = n + 1
            /\ gr_mem[n + 1] = NullPtr
            /\ \A i \in 1..n :
                  /\ PointsAt(out.mem, gr_mem[i], members[i].username)
                  /\ out.st.gr_passwd + Len(Bang) + 1 <= gr_mem[i]
                  /\ \A j \in 1..n :
                        i < j => gr_mem[i] + Len(members[i].username) + 1 <= gr_mem[j]
            /\ PointsAt(out.mem, out.st.gr_name, name)
            /\ PointsAt(out.mem, out.st.gr_passwd, Bang)
            /\ out.st.gr_name + Len(name) + 1 <= out.st.gr_passwd
            /\ out.hw <= inp.buflen
            /\ DOMAIN out.mem = DOMAIN inp.mem

C8_Witness ==
    /\ GroupCall
    /\ out.status = "Success"
    /\ Len(TheMembers) = 2
    /\ TheMembers[1].username # TheMembers[2].username
    /\ inp.buflen = RequiredLen(GroupStrings)

(***************************************************************************)
(* What _nss_aad_initgroups_dyn owes its caller.                           *)
(***************************************************************************)
DynFilled ==
    /\ pc = "returned"
    /\ inp.name_ok /\ inp.config_ok
    /\ result.ok

Qualifying == not_skipped(allowed_gids(result.val, ConfigFile.group_ids), inp.skipgroup)

(* C10 as the specification states it: when the position plus the number n *)
(* of qualifying groups exceeds the capacity, the array is grown to at     *)
(* most the ceiling, the ids beyond the ceiling are dropped, and the call  *)
(* returns Success with the position min(position + n, ceiling).           *)
C10_Truncation ==
    (DynFilled /\ Qualifying # <<>> /\ inp.start + Len(Qualifying) > inp.size) =>
        /\ out.status = "Success"
        /\ out.start = Min(inp.start + Len(Qualifying), inp.limit)
        /\ out.size <= inp.limit
        /\ Len(out.array) >= out.start
        /\ \A i \in 1..(out.start - inp.start) :
              out.array[inp.start + i] = Qualifying[i]

(* The call whose position already equals the ceiling: the slice has       *)
(* ceiling entries and the first write indexes one past them.              *)
C10_Witness ==
    /\ DynFilled
    /\ Len(Qualifying) = 1
    /\ inp.start = MaxArray /\ inp.size = MaxArray /\ inp.limit = MaxArray
    /\ ~out.outside
    /\ out.status = "Abort"

(* The example of the specification: capacity 2, ceiling 3, 5 groups. *)
C10_Example ==
    /\ DynFilled
    /\ Len(Qualifying) = 5
    /\ inp.start = 0 /\ inp.size = 2 /\ inp.limit = 3
    /\ out.outside

(* The configured gids of the groups the directory returned, in its order, *)
(* of those whose name is a key of group_ids and whose gid is not the id   *)
(* to skip: told from the result of get_user_groups, from position i on.   *)
RECURSIVE WantedFrom(_)
WantedFrom(i) ==
    IF i > Len(result.val) THEN <<>>
    ELSE LET name == result.val[i].groupname
         IN  (IF /\ name \in DOMAIN ConfigFile.group_ids
                 /\ ConfigFile.group_ids[name] # inp.skipgroup
              THEN <<ConfigFile.group_ids[name]>>
              ELSE <<>>) \o WantedFrom(i + 1)

(* The array holds want[1..k] from the position start on, and what it held *)
(* before everywhere else.                                                 *)
WrittenFrom(start, want, k) ==
    /\ Len(out.array) >= start + k
    /\ \A j \in 1..Len(out.array) :
          out.array[j] = IF j > start /\ j <= start + k THEN want[j - start]
                         ELSE IF j <= Len(inp.array) THEN inp.array[j]
                         ELSE 0

(* C11 as the specification states it: on Success the ids written, from    *)
(* the initial position on and in the directory's order, are exactly the   *)
(* configured gids of the user's allow-listed groups other than the id to  *)
(* skip, cut at the ceiling, and the position advances by the number of    *)
(* ids written.                                                            *)
C11_ContentWritten ==
    (DynFilled /\ out.status = "Success") =>
        LET want == WantedFrom(1)
            k == Min(Len(want), inp.limit - inp.start)
        IN  /\ out.start = inp.start + k
            /\ WrittenFrom(inp.start, want, k)

(* A call entered at the ceiling with room left in the array: the id is    *)
(* written at the ceiling and the position moves past it.                  *)
C11_Witness ==
    /\ DynFilled
    /\ out.status = "Success"
    /\ ~out.outside
    /\ inp.start = inp.limit /\ inp.limit < inp.size
    /\ out.start = inp.limit + 1
    /\ out.array[out.start] = WantedFrom(1)[1]

(* Below the ceiling the content is as stated. *)
C11_BelowCeiling ==
    (DynFilled /\ out.status = "Success" /\ inp.start < inp.limit) =>
        LET want == WantedFrom(1)
            k == Min(Len(want), inp.limit - inp.start)
        IN  /\ out.start = inp.start + k
            /\ WrittenFrom(inp.start, want, k)

(* C12: when get_user_groups succeeds and no group of the user qualifies   *)
(* (none is a key of group_ids, or every configured gid equals the id to   *)
(* skip), _nss_aad_initgroups_dyn returns Success and leaves the position, *)
(* the capacity, the array's storage, its contents and errno as they were. *)
C12_EmptyMembership ==
    (DynFilled /\ WantedFrom(1) = <<>>) =>
        /\ out.status = "Success"
        /\ out.start = inp.start
        /\ out.size = inp.size
        /\ out.alloc = inp.alloc
        /\ out.array = inp.array
        /\ out.errno = inp.errno
        /\ ~out.outside

C12_Witness ==
    /\ DynFilled
    /\ Len(result.val) = 2
    /\ WantedFrom(1) = <<>>
    /\ inp.start < inp.size /\ inp.size < inp.limit
    /\ out.status = "Success"

(***************************************************************************)
(* What the five entry points owe their caller in status and errno, told   *)
(* from what the call met.                                                 *)
(***************************************************************************)
EntryReturned ==
    \/ pc = "done" /\ inp.op # "initgroups_dyn"
    \/ pc = "returned"

NameUndecodable ==
    inp.op \in {"getpwnam_r", "getgrnam_r", "initgroups_dyn"} /\ ~inp.name_ok

(* The call got as far as asking the directory for its record. *)
LookupReached ==
    /\ inp.op \in {"getpwnam_r", "getgrnam_r", "initgroups_dyn"} => inp.name_ok
    /\ inp.op = "getpwuid_r" => inp.uid >= MinUsableId
    /\ inp.op = "getgrgid_r" => inp.gid >= MinUsableId
    /\ inp.config_ok

LookupResult ==
    CASE inp.op = "getpwnam_r"     -> get_user_info(inp.tok, inp.con)
      [] inp.op = "getpwuid_r"     -> inp.by_sid.res
      [] inp.op = "getgrnam_r"     -> get_group_info(inp.tok, inp.con)
      [] inp.op = "getgrgid_r"     -> get_group_info_by_sid(inp.tok, inp.con)
      [] inp.op = "initgroups_dyn" -> result

LookupFailedWith(kinds) ==
    /\ LookupReached
    /\ LET r == LookupResult IN ~r.ok /\ r.err.e \in kinds

(* C13 as the specification states it: zero or too many results, a record  *)
(* whose numeric id is unusable, and a name that cannot be decoded each    *)
(* make the entry point return NotFound with errno ENOENT.                 *)
C13_NotFoundMapping ==
    (/\ EntryReturned
     /\ \/ NameUndecodable
        \/ LookupFailedWith({"NotFound", "TooManyResults", "UnusableImmutableID"})) =>
        out.status = "NotFound" /\ out.errno = "ENOENT"

(* Zero or too many results and an undecodable name are mapped as stated. *)
C13_CardinalityAndName ==
    (/\ EntryReturned
     /\ \/ NameUndecodable
        \/ LookupFailedWith({"NotFound", "TooManyResults"})) =>
        out.status = "NotFound" /\ out.errno = "ENOENT"

(* getpwnam_r for a user whose RID is below 1000. *)
C13_Witness ==
    /\ EntryReturned
    /\ inp.op = "getpwnam_r"
    /\ LookupFailedWith({"UnusableImmutableID"})
    /\ out.status = "TryAgain" /\ out.errno = "EAGAIN"

(* The token endpoint failed, whatever its status. *)
AuthFailed ==
    /\ inp.op \in {"getpwnam_r", "getgrnam_r", "getgrgid_r"}
    /\ LookupReached
    /\ LET token_json == http_body(inp.tok)
       IN  ~token_json.ok \/ ~extract_token(token_json.val).ok

ServiceFailed ==
    /\ LookupReached
    /\ LET r == LookupResult
       IN  /\ ~r.ok
           /\ \/ r.err.e \in {"HTTPError", "NoAccessToken"}
              \/ r.err.e = "BadHTTPResponse" /\ r.err.status # HttpNotFound

(* C14 as the specification states it: an HTTP failure with a status other *)
(* than not-found, a transport error and a failure of the token endpoint   *)
(* each make the entry point return TryAgain with errno EAGAIN.            *)
C14_TryAgainMapping ==
    (EntryReturned /\ (ServiceFailed \/ AuthFailed)) =>
        out.status = "TryAgain" /\ out.errno = "EAGAIN"

(* _nss_aad_initgroups_dyn after a transport error. *)
C14_Witness ==
    /\ EntryReturned
    /\ inp.op = "initgroups_dyn"
    /\ LookupFailedWith({"HTTPError"})
    /\ out.status = "NotFound" /\ out.errno = "ENOENT"

(* On the four record lookups, what the client reports as a transport      *)
(* error, a missing token or an HTTP status other than 404 is mapped as    *)
(* stated.                                                                 *)
C14_RecordLookups ==
    (EntryReturned /\ inp.op # "initgroups_dyn" /\ ServiceFailed) =>
        out.status = "TryAgain" /\ out.errno = "EAGAIN"

(* The token endpoint answering 404 is reported as NotFound. *)
C14_WitnessToken ==
    /\ EntryReturned
    /\ AuthFailed
    /\ out.status = "NotFound"

(* The call passed the checks that precede the reading of the              *)
(* configuration: the name decoded, the numeric id is at least 1000.       *)
ConfigReached ==
    /\ inp.op \in {"getpwnam_r", "getgrnam_r", "initgroups_dyn"} => inp.name_ok
    /\ inp.op = "getpwuid_r" => inp.uid >= MinUsableId
    /\ inp.op = "getgrgid_r" => inp.gid >= MinUsableId

RequestsMade == IF inp.op = "initgroups_dyn" THEN nreq ELSE out.nreq

NothingWritten ==
    IF inp.op = "initgroups_dyn"
    THEN /\ out.array = inp.array
         /\ out.start = inp.start /\ out.size = inp.size /\ out.alloc = inp.alloc
    ELSE /\ out.mem = inp.mem
         /\ out.st = inp.st
         /\ out.hw = 0

(* C15: in every entry point no HTTP request is made unless the            *)
(* configuration was read, and when it cannot be read the call returns     *)
(* Unavailable with errno ENOENT, having made no HTTP request and written  *)
(* nothing to the buffer, the array or the result structure.               *)
C15_ConfigShortCircuit ==
    /\ (pc = "loop" /\ nreq > 0) => inp.config_ok
    /\ EntryReturned =>
          /\ RequestsMade > 0 => inp.config_ok
          /\ (ConfigReached /\ ~inp.config_ok) =>
                /\ out.status = "Unavailable" /\ out.errno = "ENOENT"
                /\ RequestsMade = 0
                /\ NothingWritten

C15_Witness ==
    /\ EntryReturned
    /\ inp.op = "getgrnam_r"
    /\ inp.name_ok /\ ~inp.config_ok
    /\ inp.buflen = MaxGrBuf
    /\ out.status = "Unavailable" /\ out.errno = "ENOENT"

C15_WitnessDyn ==
    /\ EntryReturned
    /\ inp.op = "initgroups_dyn"
    /\ inp.name_ok /\ ~inp.config_ok
    /\ out.status = "Unavailable" /\ out.errno = "ENOENT"

(* The name of the directory group a group lookup resolved. *)
ResolvedGroupName ==
    IF inp.op = "getgrnam_r" THEN inp.name ELSE TheGroup.val.groupname

Unlisted(name) == name \notin DOMAIN ConfigFile.group_ids

(* The ids the configuration gives to the listed groups of the membership. *)
ListedIds ==
    {ConfigFile.group_ids[result.val[i].groupname] :
        i \in {j \in 1..Len(result.val) : ~Unlisted(result.val[j].groupname)}}

(* Every entry of the array is one the caller had put there, one the       *)
(* growth added and the call left alone, or the id of a listed group.      *)
OnlyListedWritten ==
    \A i \in 1..Len(out.array) :
        \/ i <= Len(inp.array) /\ out.array[i] = inp.array[i]
        \/ i > inp.start /\ out.array[i] \in ListedIds
        \/ i > Len(inp.array) /\ out.array[i] = 0

(* C16 as the specification states it: a directory group whose name is not *)
(* a key of the configured mapping never gets Success from getgrnam_r or   *)
(* getgrgid_r, and initgroups_dyn never writes an id for it.               *)
C16_AllowListInvisibility ==
    /\ (GroupCall /\ Unlisted(ResolvedGroupName)) => out.status # "Success"
    /\ DynFilled => OnlyListedWritten

(* The half of C16 about initgroups_dyn: the filter_map over group_ids     *)
(* drops the groups the mapping does not name.                             *)
C16_InitgroupsListedOnly == DynFilled => OnlyListedWritten

C16_Witness ==
    /\ GroupCall
    /\ inp.op = "getgrnam_r"
    /\ Unlisted(ResolvedGroupName)
    /\ out.status = "Success"
    /\ out.st.gr_gid = TheGroup.val.group_id

C16_WitnessById ==
    /\ GroupCall
    /\ inp.op = "getgrgid_r"
    /\ Unlisted(ResolvedGroupName)
    /\ out.status = "Success"

C16_WitnessDropped ==
    /\ DynFilled
    /\ out.status = "Success"
    /\ out.start > inp.start
    /\ \E i \in 1..Len(result.val) : Unlisted(result.val[i].groupname)

(* The group was resolved and the fetch of its members failed. *)
MemberFetchFailed ==
    /\ GroupCall
    /\ ~get_group_members(inp.tok2, inp.con2).ok

(* C18 as the specification states it: when the fetch of the members of a  *)
(* resolved group fails, getgrnam_r and getgrgid_r do not return Success.  *)
C18_MemberErrorsPropagate ==
    MemberFetchFailed => out.status # "Success"

(* What the code does instead: the failed fetch counts as no members. *)
C18_MemberErrorsSwallowed ==
    MemberFetchFailed =>
        out = Asked(out.nreq,
                    group_packed(inp, fill_group_buf(inp.st, out.st.gr_gid, inp.mem,
                                                     inp.buflen, PackedGroupName, <<>>)))

C18_Witness ==
    /\ MemberFetchFailed
    /\ inp.op = "getgrnam_r"
    /\ get_group_members(inp.tok2, inp.con2).err = HTTPError
    /\ out.status = "Success"
    /\ out.st.gr_mem = <<NullPtr>>

C18_WitnessById ==
    /\ MemberFetchFailed
    /\ inp.op = "getgrgid_r"
    /\ out.status = "Success"
    /\ out.st.gr_mem = <<NullPtr>>

HasZeroByte(str) == \E i \in 1..Len(str) : str[i] = 0

(* One of the strings the packing call is given holds a zero byte. *)
ZeroByteCall ==
    /\ PackingCall
    /\ LET strs == PackedStrings IN \E k \in 1..Len(strs) : HasZeroByte(strs[k])

ZeroByteRefused ==
    /\ PackingResult = Err(ZeroByteInString)
    /\ out.mem = inp.mem
    /\ out.status = "NotFound" /\ out.errno = "ENOENT"

(* C19 as the specification states it: when a string to be packed holds a  *)
(* zero byte, the packing returns ZeroByteInString without writing the     *)
(* buffer and the entry point returns NotFound with ENOENT; it never       *)
(* aborts.                                                                 *)
C19_ZeroByteIsAnError == ZeroByteCall => ZeroByteRefused

(* Where the code does so: the zero byte is in a user's or a group's own   *)
(* strings, and a passwd buffer has a capacity.                            *)
C19_OwnStrings ==
    (/\ ZeroByteCall
     /\ IsPasswdOp => inp.buflen > 0
     /\ ~IsPasswdOp => HasZeroByte(PackedGroupName)) => ZeroByteRefused

C19_Witness ==
    /\ ZeroByteCall
    /\ inp.op = "getgrnam_r"
    /\ ~HasZeroByte(PackedGroupName)
    /\ \E i \in 1..Len(TheMembers) : HasZeroByte(TheMembers[i].username)
    /\ out.status = "Abort"

C19_WitnessNoCapacity ==
    /\ ZeroByteCall
    /\ IsPasswdOp
    /\ inp.buflen = 0
    /\ PackingResult = Err(NullPointerError)
    /\ out.status = "TryAgain" /\ out.errno = "ERANGE"

C19_WitnessRefused ==
    /\ ZeroByteCall
    /\ inp.op = "getgrgid_r"
    /\ HasZeroByte(PackedGroupName)
    /\ ZeroByteRefused

DynReturned == pc = "returned" /\ inp.op = "initgroups_dyn"

PrefixKept ==
    /\ Len(out.array) >= inp.start
    /\ \A i \in 1..inp.start : out.array[i] = inp.array[i]

(* C20 as the specification states it: after any call the storage behind   *)
(* the array holds at least as many gid_t entries as the capacity reported *)
(* to the caller, every index written lies inside the storage, and the     *)
(* entries before the initial position keep their values.                  *)
C20_GrowthMemorySafe ==
    DynReturned =>
        /\ out.alloc >= SizeofGid * out.size
        /\ ~out.outside
        /\ PrefixKept

(* A call that does not grow the array stays inside the caller's storage. *)
C20_SafeWithoutGrowth ==
    (DynReturned /\ (DynFilled => inp.start + Len(Qualifying) <= inp.size)) =>
        /\ out.alloc = inp.alloc /\ out.size = inp.size
        /\ ~out.outside
        /\ PrefixKept

C20_Witness ==
    /\ DynFilled
    /\ inp.start + Len(Qualifying) > inp.size
    /\ out.status = "Success"
    /\ out.size > inp.size
    /\ out.alloc < SizeofGid * out.size
    /\ out.outside

C20_WitnessDies ==
    /\ DynFilled
    /\ out.outside
    /\ out.status = "Abort"

(* What the caller on thread t has, told from an outcome o of its call     *)
(* running alone.                                                          *)
AsAlone(t, o) ==
    /\ out[t].status = o.status
    /\ out[t].errno = o.errno
    /\ out[t].region = Written(inp[t], o, Region(inp[t]))

(* C17 as the specification states it: in every interleaving each lookup   *)
(* that returned has the status, the errno and the written output it has   *)
(* when it runs alone on the same configuration and directory answers.     *)
C17_LookupsIndependent ==
    \A t \in Threads :
        pc[t] = "returned" => \E o \in entry_outcomes(inp[t]) : AsAlone(t, o)

(* No call of the process stored an id beyond its storage. *)
NoStrayWrite ==
    \A u \in Threads :
        (pc[u] \in {"written", "returned", "aborted"} /\ inp[u].op = "initgroups_dyn")
            => ~result[u].outside

(* Apart from the writes beyond the storage of initgroups_dyn the lookups  *)
(* are independent.                                                        *)
C17_IndependentInBounds == NoStrayWrite => C17_LookupsIndependent

C17_Witness ==
    /\ pc[1] = "returned" /\ pc[2] = "returned"
    /\ inp[1].op = "getpwnam_r" /\ inp[2].op = "initgroups_dyn"
    /\ out[1].status = "Success" /\ out[2].status = "Success"
    /\ result[2].outside
    /\ \E i \in DOMAIN out[1].region :
          i < result[1].hw /\ out[1].region[i] # result[1].mem[i]

C17_WitnessAlone ==
    /\ \A t \in Threads : pc[t] = "returned" /\ out[t].status = "Success"
    /\ inp[1].op = "getpwnam_r" /\ inp[2].op = "initgroups_dyn"
    /\ out[2].region # inp[2].array
    /\ NoStrayWrite

====
